---- MODULE Spec2Model ----
(***************************************************************************)
(* FlashKit, flashkit/library/create_interp.py: the block topology of a    *)
(* simulation (SimulationData) and the block-wise interpolation of flow    *)
(* fields from a source grid onto a destination grid (interp_blocks).      *)
(*                                                                         *)
(* Conventions.  Python lists and numpy arrays are TLA+ sequences; Python  *)
(* indexes (block numbers, lattice positions, array offsets) keep their    *)
(* 0-based values, so element i of an array a is a[i + 1].  Coordinates    *)
(* are integers (faces on even numbers, so that cell and block centres are *)
(* integers too).  Interpolated values are exact rationals <<num, den>>.   *)
(***************************************************************************)
EXTENDS Integers, Sequences, FiniteSets, TLC

VARIABLES
    phase,      \* which step of a run of the geometry queries has been taken
    input,      \* the arguments drawn for this run (constructor input, query)
    sim,        \* the SimulationData under query, NoSim before construction
    ret,        \* the value returned by the query
    cfg,        \* the run of interp_blocks: topologies, flows, stored source data
    pc,         \* per worker: position in interp_blocks
    step,       \* per worker: position in the block loop (enumerate's step)
    fcur,       \* per worker: position in the loop over flows
    local,      \* per worker: blocks, values, ... of the field processed last
    output,     \* per worker: the returned dict, field -> step -> block array
    files,      \* handles opened so far, as <<worker, path, mode>>
    created,    \* destination file: dataset name -> shape
    written,    \* destination file: log of write_partial calls
    reads,      \* source file: log of read calls
    progress    \* per worker: number of progress notifications

vars == <<phase, input, sim, ret, cfg, pc, step, fcur, local, output,
          files, created, written, reads, progress>>

geomVars == <<phase, input, sim, ret>>
engineVars == <<cfg, pc, step, fcur, local, output, files, created, written,
                reads, progress>>

----------------------------------------------------------------------------
(* Bounds of the model. *)

\* query boxes of the geometry runs take their x and y bounds in 0..MaxCoord
MaxCoord == 6
\* block subsets passed to the index queries have at most MaxSubset entries
MaxSubset == 2
\* number of workers that run interp_blocks side by side is 1..MaxWorkers
MaxWorkers == 2

----------------------------------------------------------------------------
(* Generic helpers standing for Python / numpy built-ins. *)

Range(s) == {s[i] : i \in DOMAIN s}

SetMin(S) == CHOOSE x \in S : \A y \in S : x <= y

SetMax(S) == CHOOSE x \in S : \A y \in S : x >= y

RECURSIVE SortedSeq(_)
SortedSeq(S) ==
    IF S = {} THEN <<>> ELSE <<SetMin(S)>> \o SortedSeq(S \ {SetMin(S)})

\* numpy.unique: the sorted distinct elements of a 1-d array
unique(s) == SortedSeq(Range(s))

\* numpy.where(a == x)[0]: the 0-based positions at which a holds x
where(a, x) == {i - 1 : i \in {j \in DOMAIN a : a[j] = x}}

RECURSIVE prod(_)
prod(s) == IF s = <<>> THEN 1 ELSE Head(s) * prod(Tail(s))

\* range(n) as a list
range(n) == [i \in 1..n |-> i - 1]

\* F applied to the value of v, which is computed once
Bind(v, F(_)) == CHOOSE r \in {F(x) : x \in {v}} : TRUE

\* the value of an absent optional argument
None == <<-1>>

\* what a call that raises leaves in place of its value
Raised == << <<-1>> >>

----------------------------------------------------------------------------
(* Configuration constants. *)

\* CONFIG['create']['block']['grids']: the cell-centered location first
GRIDS == <<"center", "facex", "facey", "facez">>

FACES == Tail(GRIDS)

----------------------------------------------------------------------------
(* SimulationData *)

\* __init__ stores its arguments; it checks none of them
SimulationData(axis, block, boxes, centers, grids, ndim, procs, ranges, shapes, sizes) ==
    [axisNumProcs |-> axis,
     blkPath      |-> block,
     bndboxes     |-> boxes,
     centers      |-> centers,
     grids        |-> grids,
     ndim         |-> ndim,
     numProcs     |-> procs,
     ranges       |-> ranges,
     shapes       |-> shapes,
     sizes        |-> sizes]

overlapsStrict(ll, lh, hl, hh) == ~((hh <= ll) \/ (hl >= lh))

overlaps(ll, lh, hl, hh) == ~((hh < ll) \/ (hl > lh))

\* zip(bb, box) pairs the block's (low, high) with the box's (low, high) per axis
blocks_from_bbox(self, box) ==
    SelectSeq(range(Len(self.bndboxes)),
              LAMBDA blk : \A axis \in 1..3 :
                  overlaps(self.bndboxes[blk + 1][axis][1], self.bndboxes[blk + 1][axis][2],
                           box[axis][1], box[axis][2]))

\* self.centers[sliced]: every row for slice(None), the listed rows otherwise
centers_sliced(self, blocks) ==
    IF blocks = None THEN self.centers
    ELSE [n \in 1..Len(blocks) |-> self.centers[blocks[n] + 1]]

centers_unique(self, blocks) ==
    [axis \in 1..3 |-> unique([n \in 1..Len(centers_sliced(self, blocks)) |->
                                   centers_sliced(self, blocks)[n][axis]])]

extent_unique(self, blocks) ==
    [axis \in 1..3 |-> Len(centers_unique(self, blocks)[axis])]

\* index_unique with a list of blocks: self.centers[blocks] has one row per block
index_unique_list(self, blocks) ==
    LET uniq == centers_unique(self, blocks)
    IN  [n \in 1..Len(blocks) |->
            [axis \in 1..3 |->
                SetMin(where(uniq[axis], self.centers[blocks[n] + 1][axis]))]]

\* unique[axis] == coord, for a 1-d array against a row of three coordinates:
\* elementwise with broadcasting when the lengths are 1 or 3, and otherwise
\* no elementwise comparison at all (numpy 1.18 answers False, later ones raise)
row_equal(u, coord) ==
    IF Len(u) \in {1, 3}
    THEN {i - 1 : i \in {j \in 1..3 : u[IF Len(u) = 1 THEN 1 ELSE j] = coord[j]}}
    ELSE {}

\* index_unique with blocks=None: self.centers[None] is numpy.newaxis indexing,
\* one "block" that is the whole (n, 3) array; enumerate then runs over its rows,
\* so `axis` counts blocks, unique[axis] fails from the fourth block on, and
\* [0][0] fails wherever the comparison is empty
index_unique_none(self) ==
    LET uniq == centers_unique(self, None)
        n    == Len(self.centers)
        hit(axis) == row_equal(uniq[axis], self.centers[axis])
    IN  IF n > 3 \/ \E axis \in 1..n : hit(axis) = {}
        THEN Raised
        ELSE << [axis \in 1..n |-> SetMin(hit(axis))] >>

index_unique(self, blocks) ==
    IF blocks = None THEN index_unique_none(self) ELSE index_unique_list(self, blocks)

index_flatten(self, blocks) ==
    LET all == centers_unique(self, None)
        rows == centers_sliced(self, blocks)
    IN  [axis \in 1..3 |->
            unique([n \in 1..Len(rows) |-> SetMin(where(all[axis], rows[n][axis]))])]

face_shift_first(face) == IF face \in Range(FACES) THEN <<1, 0, 0>> ELSE <<0, 0, 0>>

face_shift(face) ==
    CASE face = FACES[1] -> <<1, 0, 0>>
      [] face = FACES[2] -> <<0, 1, 0>>
      [] face = FACES[3] -> <<0, 0, 1>>
      [] OTHER           -> <<0, 0, 0>>

face_flat_shape(self, blocks, face) ==
    [a \in 1..3 |-> extent_unique(self, blocks)[a] * self.sizes[a] + face_shift(face)[a]]

----------------------------------------------------------------------------
(* The grid helpers of flashkit.support.grid and flashkit.core.parallel that *)
(* the constructors and interp_blocks call.  coords[axis] lists the face     *)
(* coordinates of the whole domain along the axis, procs[axis] * sizes[axis] *)
(* + 1 of them; blocks are numbered with x running fastest.                  *)

axisMesh(procs) == procs

\* position (i, j, k) of block blk in the lattice of procs blocks
mesh_position(procs, blk) ==
    <<blk % procs[1], (blk \div procs[1]) % procs[2], blk \div (procs[1] * procs[2])>>

\* Index.mesh_width: the lattice position of each block of the worker's range
mesh_width(rng, procs) == [n \in 1..Len(rng) |-> mesh_position(procs, rng[n])]

\* low and high face of the p-th block (0-based) along an axis
block_low(coords, sizes, axis, p) == coords[axis][p * sizes[axis] + 1]

block_high(coords, sizes, axis, p) == coords[axis][(p + 1) * sizes[axis] + 1]

\* get_blocks: <<centers, boxes>> of the lattice
get_blocks(coords, ndim, procs, sizes) ==
    LET n == prod(procs)
        pos(b) == mesh_position(procs, b - 1)
        lo(b, a) == block_low(coords, sizes, a, pos(b)[a])
        hi(b, a) == block_high(coords, sizes, a, pos(b)[a])
    IN  << [b \in 1..n |-> [a \in 1..3 |-> (lo(b, a) + hi(b, a)) \div 2]],
           [b \in 1..n |-> [a \in 1..3 |-> <<lo(b, a), hi(b, a)>>]] >>

\* coordinates of the points of block row p along an axis for a location:
\* its faces when the location is the face of that axis, else its cell centres
axis_points(coords, sizes, loc, axis, p) ==
    LET base == p * sizes[axis]
    IN  IF loc = GRIDS[axis + 1]
        THEN [i \in 1..(sizes[axis] + 1) |-> coords[axis][base + i]]
        ELSE [i \in 1..sizes[axis] |->
                 (coords[axis][base + i] + coords[axis][base + i + 1]) \div 2]

\* get_grids: location -> axis -> block row -> coordinates of its points
get_grids(coords, ndim, procs, sizes) ==
    [loc \in Range(GRIDS) |->
        [axis \in 1..3 |->
            [p \in 1..procs[axis] |-> axis_points(coords, sizes, loc, axis, p - 1)]]]

\* get_shapes: location -> (blocks, nz[+1], ny[+1], nx[+1])
get_shapes(ndim, procs, sizes) ==
    [loc \in Range(GRIDS) |->
        <<prod(procs),
          sizes[3] + (IF loc = GRIDS[4] THEN 1 ELSE 0),
          sizes[2] + (IF loc = GRIDS[3] THEN 1 ELSE 0),
          sizes[1] + (IF loc = GRIDS[2] THEN 1 ELSE 0)>>]

\* first and last element of a coordinate array
ends(c) == <<c[1], c[Len(c)]>>

----------------------------------------------------------------------------
(* The two constructors. *)

\* the plot file supplies every number; none is checked against another
from_plot_files(file) ==
    LET numProcs     == file.globalnumblocks
        axisNumProcs == <<file.iprocs, file.jprocs, file.kprocs>>
        sizes        == <<file.nxb, file.nyb, file.nzb>>
        ndim         == file.dimensionality
    IN  SimulationData(axisNumProcs, file.name, file.bounding_box, file.coordinates,
                       get_grids(file.coords, ndim, axisNumProcs, sizes),
                       ndim, numProcs,
                       <<file.xrange, file.yrange, file.zrange>>,
                       get_shapes(ndim, axisNumProcs, sizes), sizes)

\* for ndim = 2 the z range is (0, 1); coords[3] then holds the two z faces in
\* halves, <<0, 2>>, so that the centre of the single layer is an integer
from_options(block, coords, ndim, procs, sizes) ==
    LET axisNumProcs == axisMesh(procs)
        numProcs     == prod(axisNumProcs)
        ranges       == <<ends(coords[1]), ends(coords[2]),
                          IF ndim = 2 THEN <<0, 2>> ELSE ends(coords[3])>>
        blocks       == get_blocks(coords, ndim, procs, sizes)
    IN  SimulationData(axisNumProcs, block, blocks[2], blocks[1],
                       get_grids(coords, ndim, procs, sizes),
                       ndim, numProcs, ranges,
                       get_shapes(ndim, procs, sizes), sizes)

----------------------------------------------------------------------------
(* Inputs of the geometry runs. *)

\* n + 1 faces of n cells of width 2 * h, from 0
Faces(n, h) == [i \in 1..(n + 1) |-> 2 * h * (i - 1)]

Options(ndim, procs, sizes, coords) ==
    [via |-> "options", ndim |-> ndim, procs |-> procs, sizes |-> sizes,
     coords |-> coords, file |-> <<>>]

PlotFile(name, n, procs, sizes, ndim, boxes, centers, coords) ==
    [via |-> "plot", ndim |-> ndim, procs |-> procs, sizes |-> sizes, coords |-> coords,
     file |-> [name |-> name, globalnumblocks |-> n,
               iprocs |-> procs[1], jprocs |-> procs[2], kprocs |-> procs[3],
               nxb |-> sizes[1], nyb |-> sizes[2], nzb |-> sizes[3],
               dimensionality |-> ndim,
               bounding_box |-> boxes, coordinates |-> centers, coords |-> coords,
               xrange |-> ends(coords[1]), yrange |-> ends(coords[2]),
               zrange |-> ends(coords[3])]]

\* a uniform-grid plot file written by a run on the lattice of `procs` blocks
LatticeFile(name, ndim, procs, sizes, coords) ==
    PlotFile(name, prod(procs), procs, sizes, ndim,
             get_blocks(coords, ndim, procs, sizes)[2],
             get_blocks(coords, ndim, procs, sizes)[1], coords)

\* a plot file of a refined grid: three blocks, one coarse and two fine, written
\* by a run whose iprocs = jprocs = kprocs = 1
RefinedFile ==
    PlotFile("refined", 3, <<1, 1, 1>>, <<2, 2, 1>>, 2,
             << <<<<0, 4>>, <<0, 4>>, <<0, 2>>>>,
                <<<<4, 6>>, <<0, 2>>, <<0, 2>>>>,
                <<<<4, 6>>, <<2, 4>>, <<0, 2>>>> >>,
             << <<2, 2, 1>>, <<5, 1, 1>>, <<5, 3, 1>> >>,
             <<Faces(2, 1), Faces(2, 1), Faces(1, 1)>>)

\* a plot file of four scattered blocks that share no face
ScatteredFile ==
    PlotFile("scattered", 4, <<2, 2, 1>>, <<1, 1, 1>>, 2,
             << <<<<0, 2>>, <<0, 2>>, <<0, 2>>>>,
                <<<<3, 5>>, <<0, 2>>, <<0, 2>>>>,
                <<<<0, 2>>, <<3, 5>>, <<0, 2>>>>,
                <<<<4, 6>>, <<4, 6>>, <<0, 2>>>> >>,
             << <<1, 1, 1>>, <<4, 1, 1>>, <<1, 4, 1>>, <<5, 5, 1>> >>,
             <<Faces(2, 1), Faces(2, 1), Faces(1, 1)>>)

CtorInputs ==
    { Options(2, <<3, 1, 1>>, <<1, 2, 1>>, <<Faces(3, 1), Faces(2, 1), Faces(1, 1)>>),
      Options(2, <<2, 2, 1>>, <<1, 1, 1>>, <<Faces(2, 1), Faces(2, 1), Faces(1, 1)>>),
      Options(2, <<2, 3, 1>>, <<8, 8, 1>>, <<Faces(16, 1), Faces(24, 1), Faces(1, 1)>>),
      Options(3, <<2, 1, 2>>, <<1, 1, 1>>, <<Faces(2, 1), Faces(1, 2), Faces(2, 1)>>),
      Options(2, <<2, 1, 1>>, <<2, 1, 1>>, <<<<0, 2, 4, 8, 12>>, Faces(1, 2), Faces(1, 1)>>),
      LatticeFile("uniform", 2, <<1, 3, 1>>, <<2, 1, 1>>,
                  <<Faces(2, 1), Faces(3, 1), Faces(1, 1)>>),
      RefinedFile,
      ScatteredFile }

\* closed intervals with bounds in 0..m
Intervals(m) == {iv \in (0..m) \X (0..m) : iv[1] <= iv[2]}

ZIntervals == {<<0, 2>>, <<0, 1>>, <<2, 2>>, <<3, 4>>}

QueryBoxes ==
    {<<x, y, z>> : x \in Intervals(MaxCoord), y \in Intervals(MaxCoord), z \in ZIntervals}

\* lists of distinct block numbers below n, of length 1..MaxSubset, plus range(n)
RECURSIVE ListsUpTo(_, _)
ListsUpTo(n, len) ==
    IF len = 0 THEN {<<>>}
    ELSE LET shorter == ListsUpTo(n, len - 1)
         IN  shorter \cup {Append(l, b) : l \in shorter, b \in 0..(n - 1)}

BlockLists(n) ==
    {l \in ListsUpTo(n, MaxSubset) : l # <<>> /\ Cardinality(Range(l)) = Len(l)}
        \cup {range(n)}

Locations == Range(GRIDS) \cup {"other"}

GeomInput(c, op, box, blocks, face) ==
    [ctor |-> c, op |-> op, box |-> box, blocks |-> blocks, face |-> face]

\* the SimulationData a constructor input yields
Built(c) ==
    IF c.via = "options"
    THEN from_options("block", c.coords, c.ndim, c.procs, c.sizes)
    ELSE from_plot_files(c.file)

GeomInputs ==
    {GeomInput(c, "blocks_from_bbox", b, <<>>, "") : c \in CtorInputs, b \in QueryBoxes}
    \cup UNION {{GeomInput(c, "index_unique", <<>>, l, "") :
                    l \in BlockLists(Len(Built(c).centers)) \cup {None}} : c \in CtorInputs}
    \cup UNION {{GeomInput(c, "face_flat_shape", <<>>, l, f) :
                    l \in BlockLists(Len(Built(c).centers)) \cup {None},
                    f \in Locations} : c \in CtorInputs}

----------------------------------------------------------------------------
(* Geometry runs: a topology is constructed, then one query is made of it. *)

EngineIdle ==
    /\ cfg = <<>>
    /\ pc = <<>>
    /\ step = <<>>
    /\ fcur = <<>>
    /\ local = <<>>
    /\ output = <<>>
    /\ files = {}
    /\ created = {}
    /\ written = <<>>
    /\ reads = {}
    /\ progress = <<>>

GeomInit ==
    /\ phase = "drawn"
    /\ input \in GeomInputs
    /\ sim = <<>>
    /\ ret = <<>>
    /\ EngineIdle

ConstructFromOptions ==
    /\ phase = "drawn"
    /\ input.ctor.via = "options"
    /\ sim' = from_options("block", input.ctor.coords, input.ctor.ndim,
                           input.ctor.procs, input.ctor.sizes)
    /\ phase' = "built"
    /\ UNCHANGED <<input, ret>>
    /\ UNCHANGED engineVars

ConstructFromPlotFiles ==
    /\ phase = "drawn"
    /\ input.ctor.via = "plot"
    /\ sim' = from_plot_files(input.ctor.file)
    /\ phase' = "built"
    /\ UNCHANGED <<input, ret>>
    /\ UNCHANGED engineVars

CallBlocksFromBbox ==
    /\ phase = "built"
    /\ input.op = "blocks_from_bbox"
    /\ ret' = blocks_from_bbox(sim, input.box)
    /\ phase' = "called"
    /\ UNCHANGED <<input, sim>>
    /\ UNCHANGED engineVars

CallIndexUnique ==
    /\ phase = "built"
    /\ input.op = "index_unique"
    /\ ret' = index_unique(sim, input.blocks)
    /\ phase' = "called"
    /\ UNCHANGED <<input, sim>>
    /\ UNCHANGED engineVars

CallFaceFlatShape ==
    /\ phase = "built"
    /\ input.op = "face_flat_shape"
    /\ ret' = face_flat_shape(sim, input.blocks, input.face)
    /\ phase' = "called"
    /\ UNCHANGED <<input, sim>>
    /\ UNCHANGED engineVars

GeomNext ==
    \/ ConstructFromOptions
    \/ ConstructFromPlotFiles
    \/ CallBlocksFromBbox
    \/ CallIndexUnique
    \/ CallFaceFlatShape

GeomSpec == GeomInit /\ [][GeomNext]_vars

----------------------------------------------------------------------------
(* Exact rational arithmetic for interpolated values: <<num, den>>, den > 0, *)
(* in lowest terms.                                                          *)

Abs(n) == IF n < 0 THEN -n ELSE n

RECURSIVE GCD(_, _)
GCD(a, b) == IF b = 0 THEN a ELSE GCD(b, a % b)

Rat(num, den) ==
    Bind(<<num, den>>, LAMBDA r :
        Bind(GCD(Abs(r[1]), r[2]), LAMBDA g : <<r[1] \div g, r[2] \div g>>))

\* r <= v and r >= v for a rational r and an integer v
RatLeq(r, v) == r[1] <= v * r[2]

RatGeq(r, v) == r[1] >= v * r[2]

----------------------------------------------------------------------------
(* scipy.interpolate.interpn, method linear, bounds_error=False,             *)
(* fill_value=None: multilinear interpolation on a rectilinear grid that     *)
(* extrapolates from the outermost interval.  axes[a] lists the coordinates  *)
(* of axis a, values maps an index triple (0-based, 0 on an unused axis) to  *)
(* an integer, point is the query point.                                     *)

\* numpy.searchsorted(grid, x) - 1, clamped to 0 .. len(grid) - 2
find_index(grid, x) ==
    LET i == Cardinality({m \in 1..Len(grid) : grid[m] < x}) - 1
    IN  IF i < 0 THEN 0 ELSE IF i > Len(grid) - 2 THEN Len(grid) - 2 ELSE i

RECURSIVE ProdOver(_, _)
ProdOver(f, S) ==
    IF S = {} THEN 1
    ELSE LET a == CHOOSE x \in S : TRUE IN f[a] * ProdOver(f, S \ {a})

RECURSIVE SumOver(_, _)
SumOver(f, S) ==
    IF S = {} THEN 0
    ELSE LET a == CHOOSE x \in S : TRUE IN f[a] + SumOver(f, S \ {a})

\* the interval of the grid a coordinate is interpolated in: the 0-based index
\* of its lower end, and the coordinates of its two ends
bracket(grid, x) ==
    Bind(find_index(grid, x), LAMBDA i : <<i, grid[i + 1], grid[i + 2]>>)

interpn(axes, values, point, ndim) ==
    Bind([a \in 1..ndim |-> bracket(axes[a], point[a])],
         LAMBDA br :
            LET D       == 1..ndim
                corners == [D -> {0, 1}]
                weight(c) == ProdOver([a \in D |-> IF c[a] = 1 THEN point[a] - br[a][2]
                                                   ELSE br[a][3] - point[a]], D)
                at(c)   == values[[a \in 1..3 |-> IF a \in D THEN br[a][1] + c[a] ELSE 0]]
            IN  Rat(SumOver([c \in corners |-> weight(c) * at(c)], corners),
                    ProdOver([a \in D |-> br[a][3] - br[a][2]], D)))

\* numpy.minimum and numpy.maximum of a rational and an integer
minimum(r, v) == Bind(r, LAMBDA q : IF RatLeq(q, v) THEN q ELSE <<v, 1>>)

maximum(r, v) == Bind(r, LAMBDA q : IF RatGeq(q, v) THEN q ELSE <<v, 1>>)

noclip(r, low, high) == r

\* numpy.maximum(numpy.minimum(r, high), low)
clip(r, low, high) == maximum(minimum(r, high), low)

----------------------------------------------------------------------------
(* The stored source fields.  A source file is a plot file: per field an     *)
(* array indexed by block, then by point (k, j, i).  Its contents are an     *)
(* input of the run; a run draws them from a family of fields, named by      *)
(* cfg.pattern, and the file is read through `read`.                         *)

Patterns == {"linear", "blockwise", "checker"}

SourceFields == <<"dens", "velx", "vely", "velz">>

FieldNumber(f) == CHOOSE n \in 1..Len(SourceFields) : SourceFields[n] = f

\* points per axis of one block's array at a location
block_shape(self, loc) == [a \in 1..3 |-> self.sizes[a] + face_shift(loc)[a]]

\* index triples (i, j, k), 0-based, of an array of the given (x, y, z) shape
Cells(shape) == {<<i, j, k>> : i \in 0..(shape[1] - 1), j \in 0..(shape[2] - 1),
                               k \in 0..(shape[3] - 1)}

\* physical coordinate along an axis of point n of block blk at a location
point_coord(self, loc, blk, axis, n) ==
    self.grids[loc][axis][mesh_position(self.axisNumProcs, blk)[axis] + 1][n + 1]

\* the value the file holds for a field (stored at loc) at point c of block blk
stored_value(pattern, self, field, loc, blk, c) ==
    CASE pattern = "linear" ->
            FieldNumber(field) + point_coord(self, loc, blk, 1, c[1])
                + 2 * point_coord(self, loc, blk, 2, c[2])
                + (IF self.ndim = 3 THEN 3 * point_coord(self, loc, blk, 3, c[3]) ELSE 0)
      [] pattern = "blockwise" ->
            10 * blk + c[1] + 2 * c[2] + 4 * c[3] - 3 * FieldNumber(field)
      [] OTHER ->
            5 * ((blk + c[1] + c[2] + c[3] + FieldNumber(field)) % 2)

\* input_file.read(source_field): block -> point -> value
read(pattern, self, field, loc) ==
    [b \in 1..Len(self.centers) |->
        [c \in Cells(block_shape(self, loc)) |->
            stored_value(pattern, self, field, loc, b - 1, c)]]

----------------------------------------------------------------------------
(* Index of flashkit.core.parallel: the share of the blocks of one worker.   *)

\* Index.from_simple(tasks).range for worker w of n: a contiguous chunk
index_range(tasks, workers, w) ==
    LET low  == ((w - 1) * tasks) \div workers
        high == (w * tasks) \div workers
    IN  [n \in 1..(high - low) |-> low + n - 1]

----------------------------------------------------------------------------
(* interp_blocks: the work on one field of one destination block.            *)

\* what numpy.empty leaves in a cell that is never assigned
Garbage == {-1000, 1000}

\* axes the interpolation runs over: x, y and, for ndim = 3, z
active(ndim) == 1..ndim

winner_first(cover) == SetMin(cover)

\* of the blocks copied to a cell, in the order of zip(index_uniq, blocks), the
\* one whose value the cell keeps: the last
winner(cover) == SetMax(cover)

\* il, ih (jl, jh; kl, kh): the slice of the local array a source block at
\* lattice index i of the subset is copied to; the upper end is exclusive
slot_noshift(i, size, shift) == <<i * size, (i + 1) * size>>

slot(i, size, shift) == <<i * size, (i + 1) * size + shift>>

\* shape of `values` in (x, y, z) order: source_shape[::-1] is the array's
\* (z, y, x) for ndim = 3, source_shape[1::-1] its (y, x) for ndim = 2
values_shape(source_shape, ndim) ==
    [a \in 1..3 |-> IF a \in active(ndim) THEN source_shape[a] ELSE 1]

\* the gather loop over zip(index_uniq, blocks): each source block is copied to
\* its slot, a later block overwriting an earlier one where slots share cells.
\*   fits      every slot lies within the array (else the assignment raises)
\*   unwritten cells no block is copied to
\*   values    cell -> value, garbage g in the unwritten cells
gather(source, pattern, blocks, index_uniq, source_field, source_face, g) ==
    Bind(<<values_shape(face_flat_shape(source, blocks, source_face), source.ndim),
           [n \in 1..Len(blocks) |->
               [a \in 1..3 |->
                   IF a \in active(source.ndim)
                   THEN slot(index_uniq[n][a], source.sizes[a], face_shift(source_face)[a])
                   ELSE <<0, 1>>]]>>,
         LAMBDA p :
            LET shape == p[1]
                sl    == p[2]
                data  == read(pattern, source, source_field, source_face)
                cover(c) == {n \in 1..Len(blocks) :
                                \A a \in 1..3 : sl[n][a][1] <= c[a] /\ c[a] < sl[n][a][2]}
                take(c, n) == data[blocks[n] + 1][[a \in 1..3 |-> c[a] - sl[n][a][1]]]
            IN  [shape     |-> shape,
                 fits      |-> \A n \in 1..Len(blocks) : \A a \in 1..3 :
                                  sl[n][a][2] <= shape[a],
                 unwritten |-> {c \in Cells(shape) : cover(c) = {}},
                 values    |-> [c \in Cells(shape) |->
                                   IF cover(c) = {} THEN g
                                   ELSE take(c, winner(cover(c)))]])

\* xxx, yyy, zzz: numpy.unique(source.grids[source_face][axis][index_flat[axis]].flatten())
source_axes(source, source_face, index_flat) ==
    [a \in 1..3 |->
        SortedSeq(UNION {Range(source.grids[source_face][a][index_flat[a][n] + 1]) :
                             n \in 1..Len(index_flat[a])})]

\* x, y, z: destination.grids[face][axis][width[axis]]
query_axes(destination, face, width) ==
    [a \in 1..3 |-> destination.grids[face][a][width[a] + 1]]

\* the clipped interpolation of one block: point index (i, j, k) -> rational,
\* clipped to values.min() and values.max()
interpolate(axes, values, query, ndim) ==
    Bind(<<SetMin(Range(values)), SetMax(Range(values))>>,
         LAMBDA m :
            [c \in Cells([a \in 1..3 |->
                            IF a \in active(ndim) THEN Len(query[a]) ELSE 1]) |->
                clip(interpn(axes, values,
                             [a \in active(ndim) |-> query[a][c[a] + 1]], ndim),
                     m[1], m[2])])

\* the block slot write_partial(field, data, block=block, index=index) fills
write_slot_step(block, stp) == stp

write_slot(block, stp) == block

----------------------------------------------------------------------------
(* Runs of interp_blocks. *)

Flow(field, face, source_field, source_face) ==
    [field |-> field, face |-> face, source_field |-> source_field,
     source_face |-> source_face]

Workers == 1..cfg.workers

FieldNames == {cfg.flows[n].field : n \in 1..Len(cfg.flows)}

\* the worker's index.range and index.size
my_range(w) == index_range(cfg.destination.numProcs, cfg.workers, w)

my_size(w) == Len(my_range(w))

NoLocal ==
    [width |-> <<>>, block |-> -1, blocks |-> <<>>, index_uniq |-> <<>>,
     index_flat |-> <<>>, field |-> 0, values |-> <<>>, unwritten |-> {}]

\* lines 147-148: the worker's share of the blocks and their mesh positions
Start(w) ==
    /\ pc[w] = "start"
    /\ local' = [local EXCEPT ![w].width =
                     mesh_width(my_range(w), cfg.destination.axisNumProcs)]
    /\ pc' = [pc EXCEPT ![w] = "check"]
    /\ UNCHANGED <<cfg, step, fcur, output, files, created, written, reads, progress>>
    /\ UNCHANGED geomVars

CheckNothing(w) ==
    /\ pc[w] = "check"
    /\ pc' = [pc EXCEPT ![w] = "open"]
    /\ UNCHANGED <<cfg, step, fcur, local, output, files, created, written, reads, progress>>
    /\ UNCHANGED geomVars

\* lines 151-152: LibraryError unless the dimensionalities agree
CheckCompatible(w) ==
    /\ pc[w] = "check"
    /\ pc' = [pc EXCEPT ![w] = IF cfg.destination.ndim # cfg.source.ndim
                               THEN "raised" ELSE "open"]
    /\ UNCHANGED <<cfg, step, fcur, local, output, files, created, written, reads, progress>>
    /\ UNCHANGED geomVars

\* lines 155-157: the with statement opens the source file for reading, the
\* destination file for writing, and the progress context
OpenFiles(w) ==
    /\ pc[w] = "open"
    /\ files' = files \cup {<<w, cfg.source.blkPath, "r">>,
                            <<w, cfg.destination.blkPath, "w-">>}
    /\ pc' = [pc EXCEPT ![w] = "create"]
    /\ fcur' = [fcur EXCEPT ![w] = 1]
    /\ UNCHANGED <<cfg, step, local, output, created, written, reads, progress>>
    /\ UNCHANGED geomVars

DatasetsCreatedEarly(w) == TRUE

\* the loop over flows.items() of lines 161-163 has run out
DatasetsCreated(w) == fcur[w] >= Len(cfg.flows)

\* lines 161-163, one turn: the dataset of a field and its in-memory array
CreateDataset(w) ==
    /\ pc[w] = "create"
    /\ LET flow == cfg.flows[fcur[w]]
       IN  /\ created' = created \cup
                  {<<flow.field, cfg.destination.shapes[flow.face]>>}
           /\ output' = [output EXCEPT ![w][flow.field] =
                             [s \in 1..my_size(w) |-> <<>>]]
    /\ IF DatasetsCreated(w)
       THEN /\ pc' = [pc EXCEPT ![w] = IF my_size(w) > 0 THEN "block" ELSE "close"]
            /\ fcur' = [fcur EXCEPT ![w] = 1]
       ELSE /\ pc' = pc
            /\ fcur' = [fcur EXCEPT ![w] = @ + 1]
    /\ UNCHANGED <<cfg, step, local, files, written, reads, progress>>
    /\ UNCHANGED geomVars

\* lines 166-173: the next block of the range, the source blocks its bounding
\* box meets, and their indexes
NextBlock(w) ==
    /\ pc[w] = "block"
    /\ LET block  == my_range(w)[step[w] + 1]
           bbox   == cfg.destination.bndboxes[block + 1]
           blocks == blocks_from_bbox(cfg.source, bbox)
       IN  local' = [local EXCEPT ![w].block = block,
                                  ![w].field = 0,
                                  ![w].values = <<>>,
                                  ![w].unwritten = {},
                                  ![w].blocks = blocks,
                                  ![w].index_uniq = index_unique(cfg.source, blocks),
                                  ![w].index_flat = index_flatten(cfg.source, blocks)]
    /\ pc' = [pc EXCEPT ![w] = "field"]
    /\ fcur' = [fcur EXCEPT ![w] = 1]
    /\ UNCHANGED <<cfg, step, output, files, created, written, reads, progress>>
    /\ UNCHANGED geomVars

\* the loop over flows.items() of line 176 moves on, or has run out
NextField(w) ==
    IF fcur[w] >= Len(cfg.flows)
    THEN /\ pc' = [pc EXCEPT ![w] = "progress"]
         /\ fcur' = fcur
    ELSE /\ pc' = pc
         /\ fcur' = [fcur EXCEPT ![w] = @ + 1]

\* lines 176-224, one turn: gather, interpolate, clip, store and write one field
\* of the working block.  Nothing at all is done unless ndim is 2 or 3.  The
\* turn raises when numpy or scipy refuse the arrays: no source block to index,
\* a slot that does not fit the local array, or coordinate vectors that do not
\* match its shape
InterpolateField(w) ==
    /\ pc[w] = "field"
    /\ LET flow  == cfg.flows[fcur[w]]
           ndim  == cfg.source.ndim
           loc   == local[w]
       IN  IF ndim \notin {2, 3}
           THEN /\ local' = [local EXCEPT ![w].field = fcur[w]]
                /\ NextField(w)
                /\ UNCHANGED <<reads, output, written>>
           ELSE \E g \in Garbage :
                \E got \in {gather(cfg.source, cfg.pattern, loc.blocks, loc.index_uniq,
                                   flow.source_field, flow.source_face, g)} :
                \E axes \in {source_axes(cfg.source, flow.source_face, loc.index_flat)} :
                  IF /\ loc.blocks # <<>>
                     /\ got.fits
                     /\ \A a \in active(ndim) : Len(axes[a]) = got.shape[a]
                  THEN \E array \in {interpolate(axes, got.values,
                                        query_axes(cfg.destination, flow.face,
                                                   loc.width[step[w] + 1]), ndim)} :
                         /\ local' = [local EXCEPT ![w].field = fcur[w],
                                                   ![w].values = got.values,
                                                   ![w].unwritten = got.unwritten]
                         /\ reads' = reads \cup {<<w, flow.source_field, blk>> :
                                                    blk \in Range(loc.blocks)}
                         /\ output' = [output EXCEPT
                                           ![w][flow.field][step[w] + 1] = array]
                         /\ written' = [written EXCEPT
                                           ![flow.field][write_slot(loc.block, step[w]) + 1]
                                               = Append(@, [by |-> w, data |-> array])]
                         /\ NextField(w)
                  ELSE /\ pc' = [pc EXCEPT ![w] = "raised"]
                       /\ UNCHANGED <<fcur, local, reads, output, written>>
    /\ UNCHANGED <<cfg, step, files, created, progress>>
    /\ UNCHANGED geomVars

\* line 226 and the loop's next turn
Progress(w) ==
    /\ pc[w] = "progress"
    /\ progress' = [progress EXCEPT ![w] = @ + 1]
    /\ step' = [step EXCEPT ![w] = @ + 1]
    /\ pc' = [pc EXCEPT ![w] = IF step[w] + 1 < my_size(w) THEN "block" ELSE "close"]
    /\ UNCHANGED <<cfg, fcur, local, output, files, created, written, reads>>
    /\ UNCHANGED geomVars

\* the with statement closes the handles; line 228 returns output
Return(w) ==
    /\ pc[w] = "close"
    /\ files' = {f \in files : f[1] # w}
    /\ pc' = [pc EXCEPT ![w] = "done"]
    /\ UNCHANGED <<cfg, step, fcur, local, output, created, written, reads, progress>>
    /\ UNCHANGED geomVars

----------------------------------------------------------------------------
(* The runs: source and destination topology, flows, stored fields, workers. *)

\* source grids
Src2D == from_options("source", <<Faces(6, 1), Faces(2, 1), Faces(1, 1)>>,
                      2, <<3, 1, 1>>, <<2, 2, 1>>)

SrcCoarse2D == from_options("source", <<Faces(2, 2), Faces(2, 2), Faces(1, 1)>>,
                            2, <<2, 2, 1>>, <<1, 1, 1>>)

Src3D == from_options("source", <<Faces(2, 1), Faces(2, 1), Faces(2, 1)>>,
                      3, <<2, 1, 1>>, <<1, 2, 2>>)

Src1D == from_options("source", <<Faces(2, 1), Faces(1, 1), Faces(1, 1)>>,
                      1, <<2, 1, 1>>, <<1, 1, 1>>)

\* destination grids
Dst2D == from_options("block", <<Faces(6, 1), Faces(2, 1), Faces(1, 1)>>,
                      2, <<3, 1, 1>>, <<2, 2, 1>>)

DstFine2D == from_options("block", <<Faces(4, 1), Faces(4, 1), Faces(1, 1)>>,
                          2, <<2, 1, 1>>, <<2, 4, 1>>)

\* a destination domain that reaches beyond the source domain on both sides
DstWide2D == from_options("block", <<<<-2, 2, 6, 10, 14>>, Faces(2, 1), Faces(1, 1)>>,
                          2, <<2, 1, 1>>, <<2, 2, 1>>)

Dst3D == from_options("block", <<Faces(2, 1), Faces(2, 1), Faces(2, 1)>>,
                      3, <<2, 1, 1>>, <<1, 2, 2>>)

DstOther3D == from_options("block", <<Faces(2, 1), Faces(2, 1), Faces(2, 1)>>,
                           3, <<1, 1, 2>>, <<2, 2, 1>>)

Dst1D == from_options("block", <<Faces(2, 1), Faces(1, 1), Faces(1, 1)>>,
                      1, <<2, 1, 1>>, <<1, 1, 1>>)

\* field mappings
FlowsCenter == <<Flow("dens", "center", "dens", "center")>>

FlowsFaceX == <<Flow("velx", "facex", "velx", "facex"),
                Flow("dens", "center", "dens", "center")>>

FlowsFaceY == <<Flow("vely", "facey", "vely", "facey"),
                Flow("velx", "center", "velx", "facex")>>

FlowsFaceZ == <<Flow("velz", "facez", "velz", "facez"),
                Flow("dens", "facex", "dens", "center")>>

Run(source, destination, flows) ==
    [source |-> source, destination |-> destination, flows |-> flows]

Grids ==
    { Run(Src2D, Dst2D, FlowsCenter),
      Run(Src2D, Dst2D, FlowsFaceX),
      Run(Src2D, Dst2D, FlowsFaceY),
      Run(SrcCoarse2D, DstFine2D, FlowsFaceX),
      Run(SrcCoarse2D, DstFine2D, FlowsFaceY),
      Run(Src2D, DstWide2D, FlowsFaceX),
      Run(Src3D, Dst3D, FlowsFaceZ),
      Run(Src3D, DstOther3D, FlowsCenter),
      Run(Src3D, Dst2D, FlowsCenter),
      Run(Src2D, Dst3D, FlowsFaceX),
      Run(Src1D, Dst1D, FlowsFaceX) }

Runs ==
    {[source |-> r.source, destination |-> r.destination, flows |-> r.flows,
      pattern |-> p, workers |-> n] :
        r \in Grids, p \in Patterns, n \in 1..MaxWorkers}

GeomIdle ==
    /\ phase = "idle"
    /\ input = <<>>
    /\ sim = <<>>
    /\ ret = <<>>

Init ==
    /\ cfg \in Runs
    /\ pc = [w \in Workers |-> "start"]
    /\ step = [w \in Workers |-> 0]
    /\ fcur = [w \in Workers |-> 0]
    /\ local = [w \in Workers |-> NoLocal]
    /\ output = [w \in Workers |-> [f \in FieldNames |-> <<>>]]
    /\ files = {}
    /\ created = {}
    /\ written = [f \in FieldNames |-> [b \in 1..cfg.destination.numProcs |-> <<>>]]
    /\ reads = {}
    /\ progress = [w \in Workers |-> 0]
    /\ GeomIdle

Next ==
    \/ \E w \in Workers : Start(w)
    \/ \E w \in Workers : CheckCompatible(w)
    \/ \E w \in Workers : OpenFiles(w)
    \/ \E w \in Workers : CreateDataset(w)
    \/ \E w \in Workers : NextBlock(w)
    \/ \E w \in Workers : InterpolateField(w)
    \/ \E w \in Workers : Progress(w)
    \/ \E w \in Workers : Return(w)

Spec == Init /\ [][Next]_vars

----------------------------------------------------------------------------
(* Claims about interp_blocks, checked under Spec. *)

Interpolated == cfg.source.ndim \in {2, 3}

\* worker w has gathered, interpolated and written a field of its working block
Processed(w) == Interpolated /\ local[w].field > 0

LastFlow(w) == cfg.flows[local[w].field]

\* output[field][step] of the field processed last
LastArray(w) == output[w][LastFlow(w).field][local[w].block - my_range(w)[1] + 1]

\* the arrays write_partial stored in a block slot of a field
Stored(field, block) ==
    {written[field][block + 1][n].data : n \in 1..Len(written[field][block + 1])}

\* every value of an array lies in [low, high]
Within(array, low, high) ==
    \A c \in DOMAIN array : RatGeq(array[c], low) /\ RatLeq(array[c], high)

\* the values the file holds for a field in the given blocks
StoredIn(blocks, field, loc) ==
    {stored_value(cfg.pattern, cfg.source, field, loc, b, c) :
         b \in Range(blocks), c \in Cells(block_shape(cfg.source, loc))}

\* C2: every value of a destination block, in the returned array and in the
\* destination file, lies within [min(values), max(values)] of the local array
\* gathered for that block, whose values are those of the source blocks that
\* blocks_from_bbox returned for the block.
C2_ClippedToLocalRange ==
    \A w \in Workers :
        Processed(w) =>
            /\ local[w].blocks =
                   blocks_from_bbox(cfg.source,
                                    cfg.destination.bndboxes[local[w].block + 1])
            /\ Range(local[w].values) \subseteq
                   StoredIn(local[w].blocks, LastFlow(w).source_field,
                            LastFlow(w).source_face)
            /\ LastArray(w) \in Stored(LastFlow(w).field, local[w].block)
            /\ Bind(<<SetMin(Range(local[w].values)), SetMax(Range(local[w].values))>>,
                    LAMBDA m : Within(LastArray(w), m[1], m[2]))

\* a query point of the block lies outside the source coordinates on some axis
Extrapolated(w) ==
    \E a \in active(cfg.source.ndim) :
        LET axes  == source_axes(cfg.source, LastFlow(w).source_face,
                                 local[w].index_flat)[a]
            query == cfg.destination.grids[LastFlow(w).face][a]
                         [mesh_position(cfg.destination.axisNumProcs,
                                        local[w].block)[a] + 1]
        IN  \E n \in 1..Len(query) : query[n] < axes[1] \/ query[n] > axes[Len(axes)]

\* a block with an extrapolated point whose written value is the local minimum
\* or maximum, and whose local range is narrower than the range of the field
C2_Witness ==
    \E w \in Workers :
        /\ Processed(w)
        /\ Extrapolated(w)
        /\ cfg.pattern = "linear"
        /\ \E c \in DOMAIN LastArray(w) :
              LastArray(w)[c] \in {<<SetMin(Range(local[w].values)), 1>>,
                                   <<SetMax(Range(local[w].values)), 1>>}
        /\ Range(local[w].values) #
              StoredIn(range(cfg.source.numProcs), LastFlow(w).source_field,
                       LastFlow(w).source_face)

NothingWritten == \A f \in FieldNames : \A b \in DOMAIN written[f] : written[f][b] = <<>>

\* C3: when destination.ndim # source.ndim every worker fails before any I/O: no
\* file is opened, no dataset created, no block read or written, no progress
\* notified, and a worker past the check has raised.
C3_MismatchNoIO ==
    cfg.destination.ndim # cfg.source.ndim =>
        /\ files = {}
        /\ created = {}
        /\ reads = {}
        /\ NothingWritten
        /\ \A w \in Workers :
              /\ progress[w] = 0
              /\ pc[w] \in {"start", "check", "raised"}
              /\ \A f \in FieldNames : output[w][f] = <<>>

C3_Witness ==
    /\ cfg.destination.ndim # cfg.source.ndim
    /\ \A w \in Workers : pc[w] = "raised"
    /\ cfg.workers = 2

AllDone == \A w \in Workers : pc[w] = "done"

BlockSlots == 0..(cfg.destination.numProcs - 1)

\* the workers whose range holds a block
Owners(b) == {w \in Workers : b \in Range(my_range(w))}

\* the ranges are pairwise disjoint and cover every block
RangesPartition == \A b \in BlockSlots : Cardinality(Owners(b)) = 1

\* no slot is written twice, and only by the worker whose range holds it
WrittenByOwner ==
    \A f \in FieldNames : \A b \in BlockSlots :
        /\ Len(written[f][b + 1]) <= 1
        /\ \A n \in 1..Len(written[f][b + 1]) : written[f][b + 1][n].by \in Owners(b)

WrittenOnce ==
    \A f \in FieldNames : \A b \in BlockSlots : Len(written[f][b + 1]) = 1

\* the blocks a worker has finished are the first `step` of its range
Iterated(w) == progress[w] = step[w] /\ step[w] <= my_size(w)

\* C4 as stated: the ranges partition the blocks, and once every worker has
\* returned every block slot of every mapped field has been written exactly once.
C4_EverySlotWrittenOnce ==
    /\ RangesPartition
    /\ WrittenByOwner
    /\ AllDone => WrittenOnce

\* C4, amended: the ranges partition the blocks and no slot is written twice or
\* by a worker that does not own it; once every worker has returned, each has
\* iterated over its whole range, and every slot of every mapped field has been
\* written exactly once if ndim is 2 or 3, and not at all otherwise.
C4_PartitionedWrites ==
    /\ RangesPartition
    /\ WrittenByOwner
    /\ \A w \in Workers : Iterated(w)
    /\ AllDone =>
          /\ \A w \in Workers : progress[w] = my_size(w)
          /\ IF Interpolated THEN WrittenOnce ELSE NothingWritten

\* two workers have returned, having written all the slots between them
C4_Witness ==
    /\ AllDone
    /\ Interpolated
    /\ cfg.workers = 2
    /\ cfg.destination.numProcs = 3
    /\ WrittenOnce
    /\ \E f \in FieldNames : written[f][1][1].by # written[f][3][1].by

\* the dataset of every mapped field exists, with the shape of its location
SchemaCreated ==
    \A n \in 1..Len(cfg.flows) :
        <<cfg.flows[n].field, cfg.destination.shapes[cfg.flows[n].face]>> \in created

\* C5: whenever any worker is in its block loop, and whenever any block has been
\* written, the dataset of every mapped field has been created.
C5_SchemaBeforeWrites ==
    /\ (\E w \in Workers : pc[w] \in {"block", "field", "progress"}) => SchemaCreated
    /\ ~NothingWritten => SchemaCreated

\* a block is written while another worker has not yet created any dataset
C5_Witness ==
    /\ ~NothingWritten
    /\ Len(cfg.flows) = 2
    /\ SchemaCreated
    /\ \E w \in Workers : pc[w] \in {"start", "check", "open"}

----------------------------------------------------------------------------
(* Claims about the geometry queries, checked under GeomSpec. *)

Max2(a, b) == IF a >= b THEN a ELSE b

Min2(a, b) == IF a <= b THEN a ELSE b

\* two closed intervals share at least one point
Meets(iv, jv) == Max2(iv[1], jv[1]) <= Min2(iv[2], jv[2])

BlockNumbers == 0..(Len(sim.bndboxes) - 1)

CalledBbox == phase = "called" /\ input.op = "blocks_from_bbox"

\* C1: blocks_from_bbox(box) returns, once each, exactly the blocks b with
\* NOT (box.high < b.low OR box.low > b.high) on all three axes: the blocks whose
\* closed box shares a point with the closed query box, touching ones included,
\* and no block that misses the query box on one axis.
C1_OverlapInclusive ==
    CalledBbox =>
        /\ Range(ret) = {b \in BlockNumbers : \A axis \in 1..3 :
                            ~(input.box[axis][2] < sim.bndboxes[b + 1][axis][1]
                              \/ input.box[axis][1] > sim.bndboxes[b + 1][axis][2])}
        /\ Range(ret) = {b \in BlockNumbers : \A axis \in 1..3 :
                            Meets(sim.bndboxes[b + 1][axis], input.box[axis])}
        /\ Len(ret) = Cardinality(Range(ret))

\* a query that one block meets in a single corner point and that another block
\* misses on the x axis alone
C1_Witness ==
    /\ CalledBbox
    /\ \E b \in Range(ret) :
          /\ sim.bndboxes[b + 1][1][2] = input.box[1][1]
          /\ sim.bndboxes[b + 1][2][2] = input.box[2][1]
    /\ \E b \in BlockNumbers \ Range(ret) :
          /\ ~Meets(sim.bndboxes[b + 1][1], input.box[1])
          /\ Meets(sim.bndboxes[b + 1][2], input.box[2])
          /\ Meets(sim.bndboxes[b + 1][3], input.box[3])

Constructed == phase \in {"built", "called"}

\* C6: every constructed SimulationData has
\* numProcs = product(axisNumProcs) = len(bndboxes) = len(centers).
C6_GeometryConsistent ==
    Constructed =>
        /\ sim.numProcs = prod(sim.axisNumProcs)
        /\ sim.numProcs = Len(sim.bndboxes)
        /\ sim.numProcs = Len(sim.centers)

CalledIndex == phase = "called" /\ input.op = "index_unique"

\* the triples index the unique centres of the subset, block by block
IndexesSubset(blocks, triples) ==
    /\ Len(triples) = Len(blocks)
    /\ \A n \in 1..Len(blocks) : \A axis \in 1..3 :
          /\ triples[n][axis] \in 0..(extent_unique(sim, blocks)[axis] - 1)
          /\ centers_unique(sim, blocks)[axis][triples[n][axis] + 1]
                 = sim.centers[blocks[n] + 1][axis]

\* C7, for a list of blocks: one triple per block, in order, indexing the
\* unique centres of the subset.
C7_IndexOfSubset ==
    (CalledIndex /\ input.blocks # None) => IndexesSubset(input.blocks, ret)

\* C7: index_unique(blocks) returns one triple per block of the subset indexing
\* centers_unique(blocks), and index_unique() returns what
\* index_unique(list of all blocks) returns.
C7_IndexUnique ==
    CalledIndex =>
        IF input.blocks = None
        THEN ret = index_unique(sim, range(Len(sim.centers)))
        ELSE IndexesSubset(input.blocks, ret)

CalledShape == phase = "called" /\ input.op = "face_flat_shape"

\* the centre coordinates along an axis of the blocks of a subset (all if None)
SubsetCoords(blocks, axis) ==
    IF blocks = None
    THEN {sim.centers[n][axis] : n \in 1..Len(sim.centers)}
    ELSE {sim.centers[blocks[n] + 1][axis] : n \in 1..Len(blocks)}

\* C8: face_flat_shape is, in (x, y, z) order, extent * size + shift per axis,
\* the shift being 1 on the axis of a face-centered location only; for
\* axisNumProcs (2,3,1), sizes (8,8,1), all blocks and face-x it is (17, 24, 1).
C8_FaceFlatShape ==
    CalledShape =>
        /\ ret = [axis \in 1..3 |->
                     Cardinality(SubsetCoords(input.blocks, axis)) * sim.sizes[axis]
                         + (IF input.face = GRIDS[axis + 1] THEN 1 ELSE 0)]
        /\ (/\ sim.axisNumProcs = <<2, 3, 1>>
            /\ sim.sizes = <<8, 8, 1>>
            /\ input.blocks \in {None, range(6)}
            /\ input.face = "facex") => ret = <<17, 24, 1>>

\* the example of the claim, asked with the subset omitted
C8_Witness ==
    /\ CalledShape
    /\ sim.axisNumProcs = <<2, 3, 1>>
    /\ sim.sizes = <<8, 8, 1>>
    /\ input.blocks = None
    /\ input.face = "facex"
    /\ ret = <<17, 24, 1>>

----------------------------------------------------------------------------
(* Claims about the gather of interp_blocks, checked under Spec. *)

\* source and destination describe the same blocks on the same coordinates
Identical ==
    /\ cfg.destination.axisNumProcs = cfg.source.axisNumProcs
    /\ cfg.destination.sizes = cfg.source.sizes
    /\ cfg.destination.bndboxes = cfg.source.bndboxes
    /\ cfg.destination.grids = cfg.source.grids
    /\ cfg.destination.ndim = cfg.source.ndim

\* the flows that map a field to itself at the location it is stored at
SameLocation == {n \in 1..Len(cfg.flows) :
                    /\ cfg.flows[n].face = cfg.flows[n].source_face
                    /\ cfg.flows[n].field = cfg.flows[n].source_field}

\* the source blocks whose closed box shares a point with that of block b
Meeting(b) ==
    {b2 \in 0..(cfg.source.numProcs - 1) :
        \A a \in 1..3 : Meets(cfg.source.bndboxes[b2 + 1][a], cfg.source.bndboxes[b + 1][a])}

\* the points <<block, index>> of those blocks that lie where point c of block b lies
Holders(loc, b, c) ==
    {h \in Meeting(b) \X Cells(block_shape(cfg.source, loc)) :
        \A a \in 1..3 :
            IF a \in active(cfg.source.ndim)
            THEN point_coord(cfg.source, loc, h[1], a, h[2][a])
                     = point_coord(cfg.source, loc, b, a, c[a])
            ELSE h[2][a] = c[a]}

\* the one of them in the highest-numbered block
LastHolder(loc, b, c) ==
    CHOOSE h \in Holders(loc, b, c) : \A g \in Holders(loc, b, c) : g[1] <= h[1]

Value(flow, b, c) ==
    <<stored_value(cfg.pattern, cfg.source, flow.source_field, flow.source_face, b, c), 1>>

\* C9 as stated: with identical source and destination, every block written for
\* a field mapped at its own location holds, at every point, the value the
\* source stores for that point of the same block.
C9_IdentityOwnBlock ==
    Identical =>
        \A n \in SameLocation : \A b \in BlockSlots :
            \A data \in Stored(cfg.flows[n].field, b) :
                \A c \in DOMAIN data : data[c] = Value(cfg.flows[n], b, c)

\* C9, amended: with identical source and destination, every block written for
\* a field mapped at its own location holds, at every point, the value the
\* source stores at that position in the highest-numbered block among those that
\* meet the block's box and hold the position: the block's own value at every
\* point of a cell-centered field and at every point no higher-numbered block
\* holds, the value of the highest-numbered neighbour on a face shared with one.
C9_IdentityLastHolder ==
    Identical =>
        \A n \in SameLocation : \A b \in BlockSlots :
            \A data \in Stored(cfg.flows[n].field, b) :
                /\ DOMAIN data = Cells(block_shape(cfg.source, cfg.flows[n].face))
                /\ \A c \in DOMAIN data :
                      Bind(LastHolder(cfg.flows[n].face, b, c),
                           LAMBDA h :
                              /\ data[c] = Value(cfg.flows[n], h[1], h[2])
                              /\ (cfg.flows[n].face = "center" \/ h[1] = b)
                                     => data[c] = Value(cfg.flows[n], b, c))

\* a face-centered field whose stored copies of a shared face point differ, and
\* a written block that holds the neighbour's copy there and its own elsewhere
C9_Witness ==
    /\ Identical
    /\ \E n \in SameLocation : \E b \in BlockSlots :
          /\ cfg.flows[n].face # "center"
          /\ \E data \in Stored(cfg.flows[n].field, b) :
                /\ \E c \in DOMAIN data :
                      /\ LastHolder(cfg.flows[n].face, b, c)[1] > b
                      /\ data[c] # Value(cfg.flows[n], b, c)
                /\ \E c \in DOMAIN data :
                      /\ Cardinality(Holders(cfg.flows[n].face, b, c)) > 1
                      /\ data[c] = Value(cfg.flows[n], b, c)

\* the blocks form the product of one contiguous range of lattice positions per axis
SubLattice(blocks) ==
    LET at(b)     == mesh_position(cfg.source.axisNumProcs, b)
        along(a)  == {at(b)[a] : b \in Range(blocks)}
    IN  /\ blocks # <<>>
        /\ \A a \in 1..3 : along(a) = SetMin(along(a))..SetMax(along(a))
        /\ Range(blocks) = {b \in 0..(cfg.source.numProcs - 1) :
                               \A a \in 1..3 : at(b)[a] \in along(a)}

\* C10: the source blocks found for a destination block form a rectangular
\* sub-lattice of the source lattice, and the gather over them assigns every
\* cell of the local array, whose shape is face_flat_shape of those blocks.
C10_GatherFillsValues ==
    \A w \in Workers :
        /\ pc[w] \in {"field", "progress"} => SubLattice(local[w].blocks)
        /\ Processed(w) =>
              /\ SubLattice(local[w].blocks)
              /\ local[w].unwritten = {}
              /\ Garbage \cap Range(local[w].values) = {}
              /\ DOMAIN local[w].values =
                     Cells(values_shape(face_flat_shape(cfg.source, local[w].blocks,
                                                        LastFlow(w).source_face),
                                        cfg.source.ndim))

\* a face-centered field gathered from a proper sub-lattice of several blocks
C10_Witness ==
    \E w \in Workers :
        /\ Processed(w)
        /\ LastFlow(w).source_face # "center"
        /\ Len(local[w].blocks) > 1
        /\ Len(local[w].blocks) < cfg.source.numProcs
        /\ local[w].unwritten = {}

====
